---- MODULE Spec2Model ----
(***************************************************************************)
(* Model of merger.py: get_primary_keys, merge_tables_by_key and           *)
(* merge_databases.                                                        *)
(*                                                                         *)
(* A DataFrame is a record [columns, rows]: the set of its column names    *)
(* and the sequence of its rows, each row a function from column name to   *)
(* cell.  A cell is Null (SQL NULL / NaN) or a positive number.  Cell      *)
(* dtypes are not modelled: cells are compared as the values sqlite        *)
(* stores.                                                                 *)
(***************************************************************************)
EXTENDS Naturals, Sequences, FiniteSets, TLC

VARIABLES
    pc,               \* position of the run
    priority_exists,  \* os.path.exists(priority_db_path)
    fallback_exists,  \* os.path.exists(fallback_db_path)
    conn_priority,    \* "unopened" | "open" | "closed"
    conn_fallback,
    conn_output,
    table_names,      \* the list enumerated from the priority DB
    idx,              \* number of tables the for loop has taken
    output0,          \* content of the output DB before the run
    output,           \* content of the output DB
    log,              \* one entry per table the loop has taken
    exit_code,        \* process exit status so far
    uncaught,         \* the step whose exception left merge_databases, or ""
    table_info,       \* rows of PRAGMA table_info for the current table
    df_priority,      \* locals of the current table / of the merge call
    df_fallback,
    primary_keys,
    df_merged

vars == <<pc, priority_exists, fallback_exists, conn_priority, conn_fallback,
          conn_output, table_names, idx, output0, output, log, exit_code,
          uncaught, table_info, df_priority, df_fallback, primary_keys, df_merged>>

run_vars == <<priority_exists, fallback_exists, conn_priority, conn_fallback,
              conn_output, table_names, idx, output0, output, log, exit_code,
              uncaught, table_info>>

(***************************************************************************)
(* Bounds                                                                  *)
(***************************************************************************)
\* rows per DataFrame handed to merge_tables_by_key
MaxRows == 2
\* NULL cells among the two DataFrames handed to merge_tables_by_key
MaxNulls == 2
\* tables in the priority database
MaxTables == 2

Range(s) == {s[i] : i \in 1..Len(s)}

IsInjective(s) == \A i, j \in 1..Len(s) : s[i] = s[j] => i = j

(***************************************************************************)
(* Cells, rows and DataFrames                                              *)
(***************************************************************************)
\* SQL NULL / NaN; every other cell is a positive number
Null == 0

isna(v) == v = Null

KeyColumns == {"key", "team_key"}
ValueColumns == {"score", "notes"}
AllColumns == KeyColumns \cup ValueColumns

\* the cells of the key columns in the DataFrames of MergeSpec
KeyValues == {1, 2}

NoFrame == [columns |-> {}, rows |-> <<>>]

\* the key tuple of a row under a key column list
KeyOf(row, keys) == [k \in 1..Len(keys) |-> row[keys[k]]]

\* lexicographic order of key tuples of one length
TupleLess(a, b) ==
    \E j \in 1..Len(a) :
        /\ a[j] < b[j]
        /\ \A m \in 1..(j - 1) : a[m] = b[m]

RECURSIVE SortTuples(_)
\* the tuples of a finite set in ascending lexicographic order
SortTuples(S) ==
    IF S = {} THEN <<>>
    ELSE LET least == CHOOSE a \in S : \A b \in S \ {a} : TupleLess(a, b)
         IN  <<least>> \o SortTuples(S \ {least})

(***************************************************************************)
(* pandas: set_index, combine_first, reset_index                           *)
(***************************************************************************)
\* DataFrame.set_index(keys): raises KeyError unless every key is a column
CanSetIndex(df, keys) == Range(keys) \subseteq df.columns

\* DataFrame.set_index(keys): the key columns become the row index
set_index(df, keys) ==
    [names   |-> keys,
     index   |-> [i \in 1..Len(df.rows) |-> KeyOf(df.rows[i], keys)],
     columns |-> df.columns \ Range(keys),
     data    |-> [i \in 1..Len(df.rows) |->
                    [c \in df.columns \ Range(keys) |-> df.rows[i][c]]]]

\* the positions of label k in an index, ascending
Positions(index, k) ==
    LET Holds(i) == index[i] = k
    IN  SelectSeq([i \in 1..Len(index) |-> i], Holds)

\* the joined positions of one label: a left-only or right-only label pairs
\* with 0, a label on both sides pairs every left position with every right
JoinLabel(left, right, k) ==
    LET L == Positions(left, k)
        R == Positions(right, k)
    IN  IF Len(L) = 0 THEN [n \in 1..Len(R) |-> <<0, R[n]>>]
        ELSE IF Len(R) = 0 THEN [n \in 1..Len(L) |-> <<L[n], 0>>]
        ELSE [n \in 1..(Len(L) * Len(R)) |->
                <<L[((n - 1) \div Len(R)) + 1], R[((n - 1) % Len(R)) + 1]>>]

RECURSIVE JoinLabels(_, _, _)
JoinLabels(labels, left, right) ==
    IF labels = <<>> THEN <<>>
    ELSE JoinLabel(left, right, Head(labels))
            \o JoinLabels(Tail(labels), left, right)

\* a left join in place of the outer join: labels of the right side alone
\* are lost
AlignIndex_left(left, right) ==
    [i \in 1..Len(left) |->
        <<i, IF \E j \in 1..Len(right) : right[j] = left[i]
             THEN CHOOSE j \in 1..Len(right) : right[j] = left[i]
             ELSE 0>>]

\* DataFrame.align(join="outer") on the row index, as pairs <<left position,
\* right position>> with 0 for a missing side.  Equal indexes are not joined;
\* an empty side leaves the other as it is; otherwise the labels are united
\* and sorted.
AlignIndex(left, right) ==
    IF left = right THEN [i \in 1..Len(left) |-> <<i, i>>]
    ELSE IF Len(left) = 0 THEN [j \in 1..Len(right) |-> <<0, j>>]
    ELSE IF Len(right) = 0 THEN [i \in 1..Len(left) |-> <<i, 0>>]
    ELSE JoinLabels(SortTuples(Range(left) \cup Range(right)), left, right)

\* the fallback cell wins whenever it is not NULL
combiner_fallback_first(x, y) == IF isna(y) THEN x ELSE y

\* the priority cell always wins: nothing is filled in
combiner_priority_only(x, y) == x

\* combine_first's combiner: where(isna(x), y, x)
combiner(x, y) == IF isna(x) THEN y ELSE x

\* DataFrame.combine_first(other) of two indexed frames
combine_first(this, other) ==
    LET pairs == AlignIndex(this.index, other.index)
        cols  == this.columns \cup other.columns
        x(p, c) == IF p[1] = 0 \/ c \notin this.columns THEN Null
                   ELSE this.data[p[1]][c]
        y(p, c) == IF p[2] = 0 \/ c \notin other.columns THEN Null
                   ELSE other.data[p[2]][c]
    IN  [names   |-> this.names,
         index   |-> [n \in 1..Len(pairs) |->
                        IF pairs[n][1] # 0 THEN this.index[pairs[n][1]]
                        ELSE other.index[pairs[n][2]]],
         columns |-> cols,
         data    |-> [n \in 1..Len(pairs) |->
                        [c \in cols |-> combiner(x(pairs[n], c), y(pairs[n], c))]]]

\* DataFrame.reset_index(): the index levels become columns again
reset_index(ix) ==
    LET pos(c) == CHOOSE k \in 1..Len(ix.names) : ix.names[k] = c
    IN  [columns |-> Range(ix.names) \cup ix.columns,
         rows    |-> [n \in 1..Len(ix.index) |->
                        [c \in Range(ix.names) \cup ix.columns |->
                            IF c \in Range(ix.names) THEN ix.index[n][pos(c)]
                            ELSE ix.data[n][c]]]]

(***************************************************************************)
(* merger.py                                                               *)
(***************************************************************************)
merge_tables_by_key(dfp, dff, keys) ==
    reset_index(combine_first(set_index(dfp, keys), set_index(dff, keys)))

\* sqlite's PRAGMA table_info: one row <<cid, name, type, notnull,
\* dflt_value, pk>> per column in declaration order; pk is 0 for a column
\* outside the primary key and otherwise its 1-based position in the key
PragmaTableInfo(order, declared) ==
    [i \in 1..Len(order) |->
        <<i - 1, order[i], "", 0, Null,
          IF order[i] \in Range(declared)
          THEN CHOOSE k \in 1..Len(declared) : declared[k] = order[i]
          ELSE 0>>]

\* row[1] for each fetched row with row[5] == 1 (Python counts from 0)
get_primary_keys(info) ==
    LET IsPk(row) == row[6] = 1
        picked == SelectSeq(info, IsPk)
    IN  [i \in 1..Len(picked) |-> picked[i][2]]

(***************************************************************************)
(* The merge call on its own: merge_tables_by_key applied to every pair of *)
(* key-unique DataFrames within the bounds.                                *)
(***************************************************************************)
KeyLists == {<<"key">>, <<"key", "team_key">>, <<"team_key", "key">>}

PriorityRows == [key : KeyValues, team_key : KeyValues,
                 score : {Null, 1}, notes : {Null, 1}]
FallbackRows == [key : KeyValues, team_key : KeyValues,
                 score : {Null, 2}, notes : {Null, 2}]

\* the precondition of the merge: no key tuple twice in one DataFrame
KeyUnique(df, keys) == IsInjective(set_index(df, keys).index)

\* the NULL cells of a DataFrame
NullCount(df) ==
    Cardinality({ic \in (1..Len(df.rows)) \X ValueColumns :
                    isna(df.rows[ic[1]][ic[2]])})

\* the key-unique DataFrames of at most MaxRows rows, by key list and by
\* number of NULL cells
FramesOf(rowset) ==
    LET all == {[columns |-> AllColumns, rows |-> r] :
                    r \in UNION {[1..n -> rowset] : n \in 0..MaxRows}}
    IN  [keys \in KeyLists |->
            [nulls \in 0..MaxNulls |->
                {df \in all : KeyUnique(df, keys) /\ NullCount(df) = nulls}]]

PriorityFrames == FramesOf(PriorityRows)
FallbackFrames == FramesOf(FallbackRows)

MergeInit ==
    /\ pc = "merge_call"
    /\ primary_keys \in KeyLists
    /\ \E np \in 0..MaxNulls : \E nf \in 0..(MaxNulls - np) :
          /\ df_priority \in PriorityFrames[primary_keys][np]
          /\ df_fallback \in FallbackFrames[primary_keys][nf]
    /\ df_merged = NoFrame
    /\ priority_exists = TRUE
    /\ fallback_exists = TRUE
    /\ conn_priority = "unopened"
    /\ conn_fallback = "unopened"
    /\ conn_output = "unopened"
    /\ table_names = <<>>
    /\ idx = 0
    /\ output0 = <<>>
    /\ output = <<>>
    /\ log = <<>>
    /\ exit_code = 0
    /\ uncaught = ""
    /\ table_info = <<>>

MergeCall ==
    /\ pc = "merge_call"
    /\ df_merged' = merge_tables_by_key(df_priority, df_fallback, primary_keys)
    /\ pc' = "merge_return"
    /\ UNCHANGED <<df_priority, df_fallback, primary_keys>>
    /\ UNCHANGED run_vars

MergeNext == MergeCall

MergeSpec == MergeInit /\ [][MergeNext]_vars

(***************************************************************************)
(* merge_databases: the databases it can meet                              *)
(***************************************************************************)
TableNames == {"users", "Matches", "notes"}

\* str.lower() on the table names
Lower(t) == IF t = "Matches" THEN "matches" ELSE t

\* the table lists sqlite_master can hold: distinct names, any order
TableLists ==
    {l \in UNION {[1..n -> TableNames] : n \in 0..MaxTables} : IsInjective(l)}

Row(k, t, s, n) == [key |-> k, team_key |-> t, score |-> s, notes |-> n]

FullOrder == <<"key", "team_key", "score", "notes">>

\* tables of the priority database: column declaration order and rows
PriorityTables ==
    { [order |-> FullOrder, rows |-> <<Row(2, 1, 1, Null), Row(1, 2, Null, 1)>>],
      [order |-> FullOrder, rows |-> <<Row(1, 1, 1, Null), Row(1, 2, Null, Null)>>],
      [order |-> <<"key", "score">>, rows |-> <<[key |-> 1, score |-> Null]>>] }

\* the same table in the fallback database, when it has one
FallbackTables ==
    { [present |-> FALSE, columns |-> {}, rows |-> <<>>],
      [present |-> TRUE, columns |-> AllColumns,
       rows |-> <<Row(2, 1, Null, 2), Row(3, 1, 2, 2)>>],
      [present |-> TRUE, columns |-> AllColumns \cup {"extra"}, rows |-> <<>>],
      [present |-> TRUE, columns |-> {"key", "score"},
       rows |-> <<[key |-> 1, score |-> 2], [key |-> 2, score |-> 2]>>] }

\* PRIMARY KEY declarations, columns in key order
DeclaredKeys == {<<>>, <<"key">>, <<"key", "team_key">>, <<"team_key", "key">>}

\* a table of the output database
Absent == [exists |-> FALSE, frame |-> NoFrame]
Stale == [exists |-> TRUE, frame |-> [columns |-> {"stale"}, rows |-> <<>>]]
Written(df) == [exists |-> TRUE, frame |-> df]

\* the output database before the run: a new file, or the file of an
\* earlier run that holds a table under every name
OutputsBefore == {[t \in TableNames |-> Absent], [t \in TableNames |-> Stale]}

\* what can go wrong in one pass once both tables are loaded: pandas raising
\* on a merge whose index has duplicates, to_sql failing with the replaced
\* table still there, to_sql failing with it already dropped
Faults == {"none", "merge", "write", "write_dropped"}

(***************************************************************************)
(* merge_databases                                                         *)
(***************************************************************************)
Init ==
    /\ pc = "validate"
    /\ priority_exists \in BOOLEAN
    /\ fallback_exists \in BOOLEAN
    /\ conn_priority = "unopened"
    /\ conn_fallback = "unopened"
    /\ conn_output = "unopened"
    /\ table_names = <<>>
    /\ idx = 0
    /\ output0 \in OutputsBefore
    /\ output = output0
    /\ log = <<>>
    /\ exit_code = 0
    /\ uncaught = ""
    /\ table_info = <<>>
    /\ df_priority = NoFrame
    /\ df_fallback = NoFrame
    /\ primary_keys = <<>>
    /\ df_merged = NoFrame

locals == <<table_info, df_priority, df_fallback, primary_keys, df_merged>>

\* only the priority path is looked at
PathsExist_priority_only == priority_exists

\* the loop over [priority_db_path, fallback_db_path] finds both paths
PathsExist == priority_exists /\ fallback_exists

\* validate paths: sys.exit(1) at the first missing one
Validate ==
    /\ pc = "validate"
    /\ IF PathsExist
       THEN pc' = "connect_priority" /\ exit_code' = exit_code
       ELSE pc' = "exited" /\ exit_code' = 1
    /\ UNCHANGED <<priority_exists, fallback_exists, conn_priority,
                   conn_fallback, conn_output, table_names, idx, output0,
                   output, log, uncaught>>
    /\ UNCHANGED locals

\* an exception nothing catches leaves merge_databases and ends the process
Raise(step) ==
    /\ pc' = "aborted"
    /\ uncaught' = step
    /\ exit_code' = 1

ConnectPriority ==
    /\ pc = "connect_priority"
    /\ \E ok \in BOOLEAN :
          IF ok
          THEN /\ conn_priority' = "open"
               /\ pc' = "connect_fallback"
               /\ UNCHANGED <<uncaught, exit_code>>
          ELSE /\ Raise("connect_priority")
               /\ UNCHANGED conn_priority
    /\ UNCHANGED <<priority_exists, fallback_exists, conn_fallback,
                   conn_output, table_names, idx, output0, output, log>>
    /\ UNCHANGED locals

ConnectFallback ==
    /\ pc = "connect_fallback"
    /\ \E ok \in BOOLEAN :
          IF ok
          THEN /\ conn_fallback' = "open"
               /\ pc' = "connect_output"
               /\ UNCHANGED <<uncaught, exit_code>>
          ELSE /\ Raise("connect_fallback")
               /\ UNCHANGED conn_fallback
    /\ UNCHANGED <<priority_exists, fallback_exists, conn_priority,
                   conn_output, table_names, idx, output0, output, log>>
    /\ UNCHANGED locals

ConnectOutput ==
    /\ pc = "connect_output"
    /\ \E ok \in BOOLEAN :
          IF ok
          THEN /\ conn_output' = "open"
               /\ pc' = "enumerate"
               /\ UNCHANGED <<uncaught, exit_code>>
          ELSE /\ Raise("connect_output")
               /\ UNCHANGED conn_output
    /\ UNCHANGED <<priority_exists, fallback_exists, conn_priority,
                   conn_fallback, table_names, idx, output0, output, log>>
    /\ UNCHANGED locals

\* read the table names of the priority database from sqlite_master
EnumerateTables ==
    /\ pc = "enumerate"
    /\ \E ok \in BOOLEAN :
          IF ok
          THEN /\ table_names' \in TableLists
               /\ pc' = "loop"
               /\ UNCHANGED <<uncaught, exit_code>>
          ELSE /\ Raise("enumerate")
               /\ UNCHANGED table_names
    /\ UNCHANGED <<priority_exists, fallback_exists, conn_priority,
                   conn_fallback, conn_output, idx, output0, output, log>>
    /\ UNCHANGED locals

\* set(df_priority.columns) == set(df_fallback.columns)
SchemaMatch(dfp, dff) == dfp.columns = dff.columns

\* the hard-coded keys are used for every table without a primary key
ResolveKeys_any_table(table, pks) ==
    IF pks # <<>> THEN pks ELSE <<"key", "team_key">>

\* the key list the merge is given: the primary keys found, else the
\* hard-coded keys of the matches table, else <<>> for "skip the table"
ResolveKeys(table, pks) ==
    IF pks # <<>> THEN pks
    ELSE IF Lower(table) = "matches" THEN <<"key", "team_key">>
    ELSE <<>>

\* the loop goes on to the next table: continue, or the end of the body
NextTable ==
    /\ pc' = "loop"
    /\ idx' = idx + 1
    /\ UNCHANGED <<uncaught, exit_code>>

\* the handler lets the exception go on
HandleError_reraise ==
    /\ idx' = idx + 1
    /\ Raise("table")

\* except Exception as e: print the error; the loop goes on
HandleError ==
    /\ pc' = "loop"
    /\ idx' = idx + 1
    /\ UNCHANGED <<uncaught, exit_code>>

Entry(table, outcome, differs, keyless, wrote) ==
    [table |-> table, outcome |-> outcome, schema_differs |-> differs,
     keyless |-> keyless, to_sql |-> wrote]

\* one pass of the for loop body, whatever the table turns out to be:
\* ptab, ftab and declared are what the two databases hold under the table
\* name, fault is what goes wrong
ProcessTable ==
    /\ pc = "loop"
    /\ idx < Len(table_names)
    /\ \E ptab \in PriorityTables, ftab \in FallbackTables,
          declared \in DeclaredKeys, fault \in Faults :
          /\ Range(declared) \subseteq Range(ptab.order)
          /\ LET table   == table_names[idx + 1]
                 dfp     == [columns |-> Range(ptab.order), rows |-> ptab.rows]
                 dff     == [columns |-> ftab.columns, rows |-> ftab.rows]
                 info    == PragmaTableInfo(ptab.order, declared)
                 pks     == get_primary_keys(info)
                 keys    == ResolveKeys(table, pks)
                 differs == ftab.present /\ dfp.columns # dff.columns
                 keyless == /\ ftab.present
                            /\ dfp.columns = dff.columns
                            /\ declared = <<>>
                            /\ Lower(table) # "matches"
                 dups    == \/ ~KeyUnique(dfp, keys)
                            \/ ~KeyUnique(dff, keys)
                 merged  == merge_tables_by_key(dfp, dff, keys)
                 Note(outcome, wrote) ==
                     log' = Append(log, Entry(table, outcome, differs,
                                              keyless, wrote))
             IN  /\ df_priority' = dfp
                 /\ IF ~ftab.present
                    THEN \* read_sql raises: no such table
                         /\ Note("error_load", FALSE)
                         /\ HandleError
                         /\ UNCHANGED <<df_fallback, table_info, primary_keys,
                                        df_merged, output>>
                    ELSE
                    /\ df_fallback' = dff
                    /\ IF ~SchemaMatch(dfp, dff)
                       THEN /\ Note("schema_mismatch", FALSE)
                            /\ NextTable
                            /\ UNCHANGED <<table_info, primary_keys,
                                           df_merged, output>>
                       ELSE
                       /\ table_info' = info
                       /\ primary_keys' = keys
                       /\ IF keys = <<>>
                          THEN /\ Note("no_key", FALSE)
                               /\ NextTable
                               /\ UNCHANGED <<df_merged, output>>
                          ELSE IF ~CanSetIndex(dfp, keys)
                                  \/ (dups /\ fault = "merge")
                          THEN \* set_index raises KeyError, or the merge raises
                               /\ Note("error_merge", FALSE)
                               /\ HandleError
                               /\ UNCHANGED <<df_merged, output>>
                          ELSE
                          /\ df_merged' = merged
                          /\ IF fault \notin {"write", "write_dropped"}
                             THEN /\ output' = [output EXCEPT
                                                  ![table] = Written(merged)]
                                  /\ Note("merged", TRUE)
                                  /\ NextTable
                             ELSE /\ output' = IF fault = "write_dropped"
                                               THEN [output EXCEPT
                                                       ![table] = Absent]
                                               ELSE output
                                  /\ Note("error_write", TRUE)
                                  /\ HandleError
    /\ UNCHANGED <<priority_exists, fallback_exists, conn_priority,
                   conn_fallback, conn_output, table_names, output0>>

\* after the loop: close the three connections, report completion
CloseConnections ==
    /\ pc = "loop"
    /\ idx = Len(table_names)
    /\ conn_priority' = "closed"
    /\ conn_fallback' = "closed"
    /\ conn_output' = "closed"
    /\ pc' = "done"
    /\ UNCHANGED <<priority_exists, fallback_exists, table_names, idx,
                   output0, output, log, exit_code, uncaught>>
    /\ UNCHANGED locals

Next ==
    \/ Validate
    \/ ConnectPriority
    \/ ConnectFallback
    \/ ConnectOutput
    \/ EnumerateTables
    \/ ProcessTable
    \/ CloseConnections

Spec == Init /\ [][Next]_vars

(***************************************************************************)
(* Properties of merge_tables_by_key, under MergeSpec                      *)
(***************************************************************************)
Returned == pc = "merge_return"

\* the key tuple of a row under the key list of the call
Key(row) == KeyOf(row, primary_keys)

PriorityKeys == {Key(r) : r \in Range(df_priority.rows)}
FallbackKeys == {Key(r) : r \in Range(df_fallback.rows)}

\* the key tuples of the merged rows, in row order
MergedKeys == [n \in 1..Len(df_merged.rows) |-> Key(df_merged.rows[n])]

\* the rows of a DataFrame that carry key tuple k
RowsAt(df, k) == {r \in Range(df.rows) : Key(r) = k}

NonKeyColumns == AllColumns \ Range(primary_keys)

\* C2: the merged rows carry exactly the key tuples of the two inputs, each
\* once, so there are as many rows as key tuples in the union
C2_UnionOfKeys ==
    Returned =>
        /\ Range(MergedKeys) = PriorityKeys \cup FallbackKeys
        /\ IsInjective(MergedKeys)
        /\ Len(df_merged.rows) = Cardinality(PriorityKeys \cup FallbackKeys)

\* a merge of three rows: a shared key, a priority-only and a fallback-only
C2_Witness ==
    /\ Returned
    /\ PriorityKeys \cap FallbackKeys # {}
    /\ PriorityKeys \ FallbackKeys # {}
    /\ FallbackKeys \ PriorityKeys # {}
    /\ Len(df_merged.rows) = 3

\* C3: for a key in both inputs every non-key field of the merged row is
\* the priority value when that is not NULL and the fallback value when it
\* is
C3_FieldLevelPriority ==
    Returned =>
        \A p \in Range(df_priority.rows) : \A f \in RowsAt(df_fallback, Key(p)) :
            /\ RowsAt(df_merged, Key(p)) # {}
            /\ \A m \in RowsAt(df_merged, Key(p)) : \A c \in NonKeyColumns :
                  m[c] = IF ~isna(p[c]) THEN p[c] ELSE f[c]

\* one merged row with its score from priority and its notes from fallback
C3_Witness ==
    /\ Returned
    /\ \E p \in Range(df_priority.rows) : \E f \in RowsAt(df_fallback, Key(p)) :
          /\ ~isna(p["score"]) /\ isna(p["notes"])
          /\ ~isna(f["score"]) /\ ~isna(f["notes"])
          /\ \E m \in RowsAt(df_merged, Key(p)) :
                m["score"] = p["score"] /\ m["notes"] = f["notes"]

\* C4: for a key in one input only the merged row is that input's row,
\* NULL fields included
C4_SingleSourceVerbatim ==
    Returned =>
        /\ \A f \in Range(df_fallback.rows) :
              Key(f) \notin PriorityKeys => RowsAt(df_merged, Key(f)) = {f}
        /\ \A p \in Range(df_priority.rows) :
              Key(p) \notin FallbackKeys => RowsAt(df_merged, Key(p)) = {p}

\* a fallback-only row and a priority-only row, each with a NULL field and a
\* field that is not NULL, both among the merged rows
C4_Witness ==
    /\ Returned
    /\ \E f \in Range(df_fallback.rows) :
          /\ Key(f) \notin PriorityKeys
          /\ isna(f["score"]) /\ ~isna(f["notes"])
          /\ f \in Range(df_merged.rows)
    /\ \E p \in Range(df_priority.rows) :
          /\ Key(p) \notin FallbackKeys
          /\ isna(p["notes"]) /\ ~isna(p["score"])
          /\ p \in Range(df_merged.rows)

\* C10: the merged rows are in ascending order of key tuple
C10_AscendingKeys ==
    Returned =>
        \A i, j \in 1..Len(df_merged.rows) :
            i < j => TupleLess(MergedKeys[i], MergedKeys[j])

(***************************************************************************)
(* Properties of merge_databases, under Spec                               *)
(***************************************************************************)
Handles == <<conn_priority, conn_fallback, conn_output>>

Ended == pc \in {"done", "exited", "aborted"}

Errors == {"error_load", "error_merge", "error_write"}

\* the last pass of the loop got as far as resolving the key columns, so
\* table_info and primary_keys are those of its table
KeysResolved ==
    /\ Len(log) > 0
    /\ log[Len(log)].outcome \in {"no_key", "error_merge", "error_write",
                                  "merged"}

\* the columns the schema in table_info declares as primary key, in the
\* schema's column order
DeclaredColumns ==
    LET InKey(row) == row[6] # 0
        rows == SelectSeq(table_info, InKey)
    IN  [i \in 1..Len(rows) |-> rows[i][2]]

\* C1: once the table list is there, the loop takes its tables one by one
\* in order, whatever fails inside a pass: no exception of a pass leaves the
\* run, a next step is always possible, and the run is done only after
\* every table
C1_EveryTableAttempted ==
    /\ Len(log) = idx
    /\ idx <= Len(table_names)
    /\ \A j \in 1..Len(log) : log[j].table = table_names[j]
    /\ pc = "done" => Len(log) = Len(table_names)
    /\ pc = "aborted" => log = <<>> /\ table_names = <<>> /\ uncaught # "table"
    /\ pc = "loop" => ENABLED (ProcessTable \/ CloseConnections)

\* a finished run whose first table failed and whose second was merged
C1_Witness ==
    /\ pc = "done"
    /\ Len(log) = 2
    /\ log[1].outcome \in Errors
    /\ log[2].outcome = "merged"
    /\ output[log[2].table] = Written(df_merged)

\* a table the priority side has but the run must skip
Skipped(e) == e.schema_differs \/ e.keyless

\* C5 as stated: a skipped table is not in the output database and was
\* not written
C5_SkippedTableAbsent ==
    \A j \in 1..Len(log) :
        Skipped(log[j]) =>
            /\ ~log[j].to_sql
            /\ ~output[log[j].table].exists

\* C5 as amended: a skipped table was not written, the output database
\* holds under its name what it held before the run, and the loop went on
C5_SkippedTableUntouched ==
    \A j \in 1..Len(log) :
        Skipped(log[j]) =>
            /\ ~log[j].to_sql
            /\ log[j].outcome \in {"schema_mismatch", "no_key"}
            /\ output[log[j].table] = output0[log[j].table]
            /\ pc \in {"loop", "done"}

\* a finished run that skipped one table for its columns and one for its
\* missing key, over an output database that held both before
C5_Witness ==
    /\ pc = "done"
    /\ Len(log) = 2
    /\ log[1].schema_differs
    /\ log[2].keyless
    /\ output[log[1].table] = Stale
    /\ output[log[2].table] = Stale

\* C6: when the run has ended, no connection it opened is still open
C6_HandlesReleased ==
    Ended => \A h \in 1..3 : Handles[h] # "open"

\* C7: a table without primary key is merged on <<"key", "team_key">> when
\* it is the matches table and skipped unwritten otherwise; a table with a
\* primary key is merged on the declared key
C7_KeyResolution ==
    KeysResolved =>
        LET last == log[Len(log)]
        IN  /\ DeclaredColumns = <<>> /\ Lower(last.table) = "matches"
                => /\ primary_keys = <<"key", "team_key">>
                   /\ last.outcome # "no_key"
            /\ DeclaredColumns = <<>> /\ Lower(last.table) # "matches"
                => /\ last.outcome = "no_key"
                   /\ ~last.to_sql
            /\ DeclaredColumns # <<>>
                => /\ Range(primary_keys) = Range(DeclaredColumns)
                   /\ last.outcome # "no_key"

\* C8: with a source path missing the run exits with status 1 before any
\* connection is opened, any table is listed or processed, or the output
\* database is touched
C8_MissingSourceExits ==
    /\ ~(priority_exists /\ fallback_exists) =>
          /\ pc \in {"validate", "exited"}
          /\ \A h \in 1..3 : Handles[h] = "unopened"
          /\ table_names = <<>>
          /\ log = <<>>
          /\ output = output0
    /\ pc = "exited" =>
          /\ ~(priority_exists /\ fallback_exists)
          /\ exit_code = 1

\* the run has exited because the fallback path alone is missing
C8_Witness ==
    /\ pc = "exited"
    /\ priority_exists
    /\ ~fallback_exists
    /\ exit_code = 1
    /\ conn_output = "unopened"

\* C9: get_primary_keys returns all the columns of the declared primary key
\* in the schema's column order, and <<>> when none is declared
C9_AllPrimaryKeyColumns ==
    KeysResolved => get_primary_keys(table_info) = DeclaredColumns

====
